---- MODULE Spec2Model ----
(***************************************************************************)
(* Provider selection and fallback of the NeuroLink demo server            *)
(* (src/server.js): candidate-list construction, the sequential attempt    *)
(* loop of generateWithProvider, the usage counters, and the route         *)
(* handlers that call it.                                                  *)
(*                                                                         *)
(* A request handler is a cooperative task: it runs without interruption   *)
(* between two awaits.  Each action below is one such run.                 *)
(***************************************************************************)
EXTENDS Integers, Sequences, FiniteSets, TLC

(***************************************************************************)
(* Bounds of the model                                                     *)
(***************************************************************************)
\* HTTP requests accepted in one behaviour (caps usageStats.requests)
MaxRequests == 2
\* requests in flight at the same time when requests overlap
MaxConcurrent == 2

\* requests whose body express.json cannot parse
MaxUnparsable == 1

(***************************************************************************)
(* Small helpers on sequences                                              *)
(***************************************************************************)
Range(s) == {s[k] : k \in 1..Len(s)}

RECURSIVE SelectSeqBy(_, _)
\* Array.prototype.filter with the membership test `keep`
SelectSeqBy(s, keep) ==
    IF s = <<>> THEN <<>>
    ELSE (IF Head(s) \in keep THEN <<Head(s)>> ELSE <<>>)
         \o SelectSeqBy(Tail(s), keep)

\* a message is a sequence of tokens; it mentions a token when it holds it
Mentions(msg, tok) == \E k \in 1..Len(msg) : msg[k] = tok

(***************************************************************************)
(* JavaScript values that reach a truthiness test                          *)
(***************************************************************************)
JsNull == [t |-> "null"]
JsUndefined == [t |-> "undefined"]
JsString(s) == [t |-> "string", v |-> s]
JsNumber(n) == [t |-> "number", n |-> n]
JsObject(o) == [t |-> "object", o |-> o]

\* !v
Falsy(v) ==
    \/ v.t \in {"null", "undefined"}
    \/ v.t = "string" /\ v.v = ""
    \/ v.t = "number" /\ v.n = 0

(***************************************************************************)
(* Configuration and constants (server.js 39-86)                           *)
(***************************************************************************)
ALL_PROVIDERS ==
    << "google-ai", "anthropic", "openai", "mistral", "vertex",
       "azure", "huggingface", "bedrock", "ollama" >>

PROVIDER_ENV_VARS ==
    [ p \in Range(ALL_PROVIDERS) |->
        CASE p = "openai"      -> <<"OPENAI_API_KEY">>
          [] p = "bedrock"     -> <<"AWS_ACCESS_KEY_ID", "AWS_SECRET_ACCESS_KEY">>
          [] p = "vertex"      -> <<"GOOGLE_VERTEX_PROJECT",
                                    "GOOGLE_APPLICATION_CREDENTIALS",
                                    "GOOGLE_AUTH_CLIENT_EMAIL">>
          [] p = "google-ai"   -> <<"GOOGLE_AI_API_KEY">>
          [] p = "anthropic"   -> <<"ANTHROPIC_API_KEY">>
          [] p = "azure"       -> <<"AZURE_OPENAI_API_KEY", "AZURE_OPENAI_ENDPOINT">>
          [] p = "huggingface" -> <<"HUGGINGFACE_API_KEY">>
          [] p = "ollama"      -> <<>>
          [] p = "mistral"     -> <<"MISTRAL_API_KEY">> ]

\* PROVIDER_ENV_VARS[provider] || []
RequiredVars(provider) ==
    IF provider \in DOMAIN PROVIDER_ENV_VARS
    THEN PROVIDER_ENV_VARS[provider] ELSE <<>>

\* vertex accepts any one of its variables: requiredVars.some(...)
VertexConfigured(e) ==
    \E k \in 1..Len(RequiredVars("vertex")) : RequiredVars("vertex")[k] \in e

\* isProviderConfigured with requiredVars.some(...) for every provider
IsProviderConfiguredAnyOf(provider, e) ==
    IF provider = "ollama" THEN TRUE
    ELSE \E k \in 1..Len(RequiredVars(provider)) : RequiredVars(provider)[k] \in e

\* isProviderConfigured, evaluated in the environment e (the set of
\* environment variables holding a non-empty value)
IsProviderConfiguredIn(provider, e) ==
    IF provider = "ollama" THEN TRUE
    ELSE IF provider = "vertex" THEN VertexConfigured(e)
    ELSE \A k \in 1..Len(RequiredVars(provider)) : RequiredVars(provider)[k] \in e

\* DEFAULT_GENERATION_PARAMS; temperatures are counted in tenths (0.7 is 7)
DEFAULT_GENERATION_PARAMS ==
    [maxTokens |-> JsNumber(500), temperature |-> JsNumber(7)]

\* a property an options object does not have
Absent == [t |-> "absent"]

\* an options object without maxTokens and temperature
NoOptions == [maxTokens |-> Absent, temperature |-> Absent]

\* options[key]: undefined when the object has no such property
OptionOf(options, key) ==
    IF options[key] = Absent THEN JsUndefined ELSE options[key]

\* v || d
OrDefault(v, d) == IF Falsy(v) THEN d ELSE v

\* maxTokens and temperature of the object passed to aiProvider.generate:
\* each is written as options[key] || default, then the spread of options
\* writes every property options has over it, whatever its value
GenerateParams(options) ==
    LET written == [ key \in {"maxTokens", "temperature"} |->
                       OrDefault(OptionOf(options, key),
                                 DEFAULT_GENERATION_PARAMS[key]) ]
    IN  [ key \in {"maxTokens", "temperature"} |->
            IF options[key] # Absent THEN options[key] ELSE written[key] ]

\* fallback enabled only by an explicit "true": ENABLE_FALLBACK === "true"
FallbackEnabledOnlyWhenTrue(fb) == fb = JsString("true")

\* process.env.ENABLE_FALLBACK !== "false"
FallbackEnabled(fb) == fb # JsString("false")

\* the fallback filter without its p !== providerName test
ConfiguredIncluding(excluded, e) ==
    SelectSeqBy(ALL_PROVIDERS,
                {p \in Range(ALL_PROVIDERS) : IsProviderConfiguredIn(p, e)})

\* the configured providers other than `excluded`, in priority order
ConfiguredExcept(excluded, e) ==
    SelectSeqBy(ALL_PROVIDERS,
                {p \in Range(ALL_PROVIDERS) :
                    p # excluded /\ IsProviderConfiguredIn(p, e)})

\* the candidate list with the auto mode left unfiltered
ProvidersToTryUnfiltered(providerName, e, fb) ==
    IF providerName = "auto"
    THEN ALL_PROVIDERS
    ELSE <<providerName>> \o
         (IF FallbackEnabled(fb) THEN ConfiguredExcept(providerName, e) ELSE <<>>)

\* the candidate list of generateWithProvider (providersToTry)
ProvidersToTry(providerName, e, fb) ==
    IF providerName = "auto"
    THEN SelectSeqBy(ALL_PROVIDERS,
                     {p \in Range(ALL_PROVIDERS) : IsProviderConfiguredIn(p, e)})
    ELSE <<providerName>> \o
         (IF FallbackEnabled(fb) THEN ConfiguredExcept(providerName, e) ELSE <<>>)

(***************************************************************************)
(* What the provider library can answer (inputs of the model)              *)
(***************************************************************************)
\* environment variables that may be set; every other variable is unset
EnvUniverse ==
    {"GOOGLE_VERTEX_PROJECT", "AWS_ACCESS_KEY_ID", "AWS_SECRET_ACCESS_KEY"}

\* values of ENABLE_FALLBACK
FallbackValues == {JsUndefined, JsString("true"), JsString("false")}

\* values of the provider field of an /api/generate body
RequestedProviders == {"auto", "openai", "ollama"}

\* a thrown Error object with the given message
Err(msg) == [t |-> "Error", message |-> msg]

\* a thrown string (a rejection whose reason is not an Error object)
ThrownString(msg) == [t |-> "string", v |-> msg]

\* what createAIProvider or generate can reject with
Thrown == {Err(<<"401", "Unauthorized">>), ThrownString(<<"Request", "timeout">>)}

TextPlain == JsString("Hello")
TextJson == JsString("{\"name\":\"Ada\"}")

\* usage payloads of a response
Usages == {JsUndefined, JsObject([totalTokens |-> 42])}

\* values generate can resolve to
Responses ==
    {JsNull}
    \cup {JsObject([text |-> JsString(""), usage |-> JsUndefined]),
          JsObject([text |-> JsNull, usage |-> JsObject([totalTokens |-> 42])])}
    \cup {JsObject([text |-> TextPlain, usage |-> u]) : u \in Usages}
    \cup {JsObject([text |-> TextJson, usage |-> JsUndefined])}

\* the validity test without its test of the text: !result
InvalidResponseNoTextTest(result) == Falsy(result)

\* !result || !result.text
InvalidResponse(result) == Falsy(result) \/ Falsy(result.o.text)

InvalidResponseMessage == <<"Provider returned null or invalid response">>

\* String(error)
StringOf(error) ==
    IF error.t = "string" THEN error.v
    ELSE IF error.message = <<>> THEN <<"Error">>
    ELSE <<"Error:">> \o error.message

\* error.message || String(error)
ErrorMessage(error) ==
    IF error.t = "Error" /\ error.message # <<>>
    THEN error.message
    ELSE StringOf(error)

(***************************************************************************)
(* Classification of error messages (server.js 277-302)                    *)
(*                                                                         *)
(* An error message is a sequence of words, and errorMsg.includes(pattern) *)
(* holds when the words of the pattern occur in it one after the other,    *)
(* compared letter for letter as String.prototype.includes does.           *)
(***************************************************************************)
\* errorMsg.includes(pattern)
Includes(msg, pattern) ==
    \E k \in 0..(Len(msg) - Len(pattern)) :
        SubSeq(msg, k + 1, k + Len(pattern)) = pattern

IncludesAny(msg, patterns) == \E pattern \in patterns : Includes(msg, pattern)

\* the patterns of the four tests of the catch block, in the order of the code
AuthenticationPatterns ==
    { <<"401">>, <<"Unauthorized">>, <<"Invalid", "API">>, <<"Authentication">>,
      <<"API", "key">>, <<"not", "authorized">> }
NotFoundPatterns == { <<"404">>, <<"not", "found">> }
RateLimitPatterns == { <<"429">>, <<"rate", "limit">> }
ConnectionPatterns == { <<"timeout">>, <<"ECONNREFUSED">> }

\* the if/else chain with the rate-limit test moved to the front
ClassifyRateLimitFirst(errorMsg) ==
    IF IncludesAny(errorMsg, RateLimitPatterns) THEN "RateLimited"
    ELSE IF IncludesAny(errorMsg, AuthenticationPatterns) THEN "Authentication"
    ELSE IF IncludesAny(errorMsg, NotFoundPatterns) THEN "NotFound"
    ELSE IF IncludesAny(errorMsg, ConnectionPatterns) THEN "ConnectionFailure"
    ELSE "Unknown"

\* the branch of the if/else chain of the catch block that errorMsg takes
Classify(errorMsg) ==
    IF IncludesAny(errorMsg, AuthenticationPatterns) THEN "Authentication"
    ELSE IF IncludesAny(errorMsg, NotFoundPatterns) THEN "NotFound"
    ELSE IF IncludesAny(errorMsg, RateLimitPatterns) THEN "RateLimited"
    ELSE IF IncludesAny(errorMsg, ConnectionPatterns) THEN "ConnectionFailure"
    ELSE "Unknown"

\* result.error as each branch sets it
ErrorText(kind, errorMsg) ==
    CASE kind = "Authentication" ->
             <<"Invalid", "API", "key", "or", "authentication", "failed">>
      [] kind = "NotFound" -> <<"Model", "or", "endpoint", "not", "found">>
      [] kind = "RateLimited" -> <<"Rate", "limit", "exceeded">>
      [] kind = "ConnectionFailure" ->
             <<"Connection", "failed", "-", "service", "may", "be", "down">>
      [] OTHER -> errorMsg

\* a string that holds a message
JsText(msg) == [t |-> "text", v |-> msg]

(***************************************************************************)
(* State                                                                   *)
(***************************************************************************)
VARIABLES
    env,            \* process.env: the variables holding a non-empty value
    enableFallback, \* process.env.ENABLE_FALLBACK
    usageStats,     \* the in-memory usage statistics
    slots,          \* the requests being handled, one record per request
    probe           \* the testProviderAvailability call in progress

vars == <<env, enableFallback, usageStats, slots, probe>>

NoReturn == [kind |-> "none"]

\* the status object of /api/status before any provider is tested (the
\* fields no decision reads are left out)
NoReport == [fallbackEnabled |-> FALSE, providers |-> <<>>, bestProvider |-> JsNull]

\* a request slot that holds no request
IdleSlot ==
    [ pc |-> "idle",            \* where the handler of the request stands
      ep |-> "none",            \* the route
      callNo |-> 0,             \* generateWithProvider calls begun by the handler
      providerName |-> "none",  \* argument of the current call
      providersToTry |-> <<>>,
      i |-> 0,                  \* loop index, counted from 1
      errors |-> <<>>,          \* the errors array of the current call
      caught |-> <<>>,          \* errorMsg of the last catch of the call (history)
      started |-> <<>>,         \* providers on which an attempt began (history)
      open |-> {},              \* indexes whose attempt began and has not ended
      options |-> NoOptions,    \* the options the handler passes to its calls
      invoked |-> NoOptions,    \* maxTokens and temperature of the last generate
      result |-> JsUndefined,   \* what generate resolved to in the last attempt
      ret |-> NoReturn,         \* what the current call returned or threw
      report |-> NoReport,      \* the status object of a /api/status request
      status |-> 0 ]            \* HTTP status of the response, 0 when none

\* The routes (the ep field) are "generate", "schema", "benchmark",
\* "analytics" and "business"; the last stands for every /api/business,
\* /api/creative, /api/developer and /api/ai route, which make one call in
\* auto mode without a try/catch of their own.

\* the ProviderStatus object as testProviderAvailability creates it (the
\* model field, which no decision reads, is left out)
FreshStatus ==
    [available |-> FALSE, configured |-> FALSE, authenticated |-> FALSE,
     error |-> JsNull]

\* what the provider library and the network were asked for by the probe
NoCalls == [fetch |-> 0, create |-> 0, generate |-> 0]

\* no testProviderAvailability call in progress
IdleProbe ==
    [ pc |-> "idle",            \* where the call stands
      providerName |-> "none",  \* its argument
      result |-> FreshStatus,   \* the status object being filled
      calls |-> NoCalls,        \* the calls it has made (history)
      fetched |-> "none",       \* how the fetch of the Ollama branch ended (history)
      caught |-> <<>>,          \* errorMsg of the catch block, if entered (history)
      kind |-> "none" ]         \* the branch of the catch block taken (history)

Init ==
    /\ env \in SUBSET EnvUniverse
    /\ enableFallback \in FallbackValues
    /\ usageStats = [requests |-> 0, providers |-> {}, errors |-> 0,
                    totalTokens |-> 0]
    /\ slots = <<IdleSlot>>
    /\ probe = IdleProbe

(***************************************************************************)
(* Usage recorder                                                          *)
(***************************************************************************)
\* logRequest without its increment
LogRequestUncounted(u) == u

\* logRequest: usageStats.requests++
LogRequest(u) == [u EXCEPT !.requests = @ + 1]

\* usageStats.errors++
CountError(u) == [u EXCEPT !.errors = @ + 1]

\* updateUsageStats writing the count of the call over the total instead of
\* adding to it
UpdateUsageStatsOverwrite(u, usage) ==
    IF ~Falsy(usage) /\ ~Falsy(JsNumber(usage.o.totalTokens))
    THEN [u EXCEPT !.totalTokens = usage.o.totalTokens]
    ELSE u

\* updateUsageStats(usage)
UpdateUsageStats(u, usage) ==
    IF ~Falsy(usage) /\ ~Falsy(JsNumber(usage.o.totalTokens))
    THEN [u EXCEPT !.totalTokens = @ + usage.o.totalTokens]
    ELSE u

(***************************************************************************)
(* generateWithProvider                                                    *)
(***************************************************************************)
\* the loop body up to its first await: createAIProvider(providersToTry[k])
BeginAttempt(sl, k) ==
    [sl EXCEPT !.pc = "creating",
               !.i = k,
               !.started = Append(@, sl.providersToTry[k]),
               !.open = @ \cup {k}]

\* the loop is over without a return or a throw: the function returns undefined
FallOffLoop(sl) == [sl EXCEPT !.pc = "returned", !.ret = [kind |-> "undefined"]]

\* entry of generateWithProvider with every candidate started at once, none
\* awaited before the next (speculative parallel attempts)
BeginCallAllAtOnce(sl, providerName, e, fb) ==
    LET list == ProvidersToTry(providerName, e, fb)
    IN  [sl EXCEPT !.callNo = @ + 1,
                   !.providerName = providerName,
                   !.providersToTry = list,
                   !.i = 1,
                   !.errors = <<>>,
                   !.caught = <<>>,
                   !.started = list,
                   !.open = 1..Len(list),
                   !.result = JsUndefined,
                   !.ret = NoReturn,
                   !.pc = "creating"]

\* entry of generateWithProvider with a candidate list that adapts to the
\* errors counted so far: once a request has failed, the first candidate is
\* tried last
BeginCallAdaptive(sl, providerName, e, fb) ==
    LET declared == ProvidersToTry(providerName, e, fb)
        list == IF usageStats.errors > 0 /\ Len(declared) >= 2
                THEN Tail(declared) \o <<Head(declared)>>
                ELSE declared
        fresh == [sl EXCEPT !.callNo = @ + 1,
                            !.providerName = providerName,
                            !.providersToTry = list,
                            !.i = 0,
                            !.errors = <<>>,
                            !.caught = <<>>,
                            !.started = <<>>,
                            !.open = {},
                            !.result = JsUndefined,
                            !.ret = NoReturn]
    IN  BeginAttempt(fresh, 1)

\* entry of generateWithProvider up to its first await
BeginCall(sl, providerName, e, fb) ==
    LET fresh == [sl EXCEPT !.callNo = @ + 1,
                            !.providerName = providerName,
                            !.providersToTry = ProvidersToTry(providerName, e, fb),
                            !.i = 0,
                            !.errors = <<>>,
                            !.caught = <<>>,
                            !.started = <<>>,
                            !.open = {},
                            !.result = JsUndefined,
                            !.ret = NoReturn]
    IN  IF Len(fresh.providersToTry) >= 1
        THEN BeginAttempt(fresh, 1)
        ELSE FallOffLoop(fresh)

\* `Failed after ${providersToTry.length} attempts. Last error: ${errorMsg}`
FinalError(sl, errorMsg) ==
    <<"Failed after", ToString(Len(sl.providersToTry)), "attempts. Last error:">>
    \o errorMsg

\* the catch block rethrowing whatever the index: no test of the index
IsLastProviderAlways(sl) == TRUE

\* i === providersToTry.length - 1
IsLastProvider(sl) == sl.i = Len(sl.providersToTry)

\* the entry of the errors array holding what the prober would report for
\* the message rather than the message itself
AttemptErrorEntryClassified(provider, errorMsg) ==
    <<provider, ":">> \o ErrorText(Classify(errorMsg), errorMsg)

\* `${currentProvider}: ${errorMsg}`
AttemptErrorEntry(provider, errorMsg) == <<provider, ":">> \o errorMsg

\* a catch block that tries the same candidate again, without end
OnAttemptErrorRetry(sl, error) == [sl EXCEPT !.pc = "creating"]

\* the catch block of the loop, and the next iteration up to its await
OnAttemptError(sl, error) ==
    LET errorMsg == ErrorMessage(error)
        caught == [sl EXCEPT
                     !.errors = Append(@, AttemptErrorEntry(sl.providersToTry[sl.i],
                                                            errorMsg)),
                     !.caught = errorMsg,
                     !.open = @ \ {sl.i}]
    IN  IF IsLastProvider(sl)
        THEN [caught EXCEPT !.pc = "threw",
                            !.ret = [kind |-> "error",
                                     message |-> FinalError(sl, errorMsg)]]
        ELSE BeginAttempt(caught, sl.i + 1)

\* SuccessReturn with the loop index reported as it is counted from 0
SuccessReturnZeroBased(sl, result) ==
    [ kind |-> "result",
      content |-> result.o.text,
      provider |-> sl.providersToTry[sl.i],
      usage |-> result.o.usage,
      attemptedProviders |-> sl.i - 1,
      fallbackUsed |-> sl.i > 1 ]

\* the object returned on success
SuccessReturn(sl, result) ==
    [ kind |-> "result",
      content |-> result.o.text,
      provider |-> sl.providersToTry[sl.i],
      usage |-> result.o.usage,
      attemptedProviders |-> sl.i,
      fallbackUsed |-> sl.i > 1 ]

\* the rest of the try block once generate has resolved to `result`
OnResponse(sl, result) ==
    LET got == [sl EXCEPT !.result = result]
    IN  IF InvalidResponse(result)
        THEN OnAttemptError(got, Err(InvalidResponseMessage))
        ELSE [got EXCEPT !.pc = "returned",
                         !.open = @ \ {sl.i},
                         !.ret = SuccessReturn(sl, result)]

\* the usage recorded before the validity test rather than after it
StatsOnResponseUnchecked(u, result) ==
    IF Falsy(result) THEN u ELSE UpdateUsageStats(u, result.o.usage)

\* the usage statistics after generate has resolved to `result`
StatsOnResponse(u, result) ==
    IF InvalidResponse(result) THEN u ELSE UpdateUsageStats(u, result.o.usage)


(***************************************************************************)
(* Route handlers                                                          *)
(***************************************************************************)
\* res.status(status).json(...)
Respond(sl, status) == [sl EXCEPT !.pc = "responded", !.status = status]

\* JSON.parse(result.content) returns rather than throws
ParsesAsJson(content) == content = TextJson

\* the slot can take a new request
CanReceive(s) ==
    /\ slots[s].pc = "idle"
    /\ usageStats.requests < MaxRequests

\* a call of generateWithProvider is awaiting createAIProvider / generate
Creating(s) == slots[s].pc = "creating"
Generating(s) == slots[s].pc = "generating"

\* the call of the handler of route ep has settled and the handler resumes
Settled(s, ep) ==
    /\ slots[s].ep = ep
    /\ slots[s].pc \in {"returned", "threw"}

\* maxTokens and temperature of an /api/generate body: both omitted, or
\* both given (a temperature of 0 among them)
GenerateBodies ==
    { [maxTokens |-> JsUndefined, temperature |-> JsUndefined],
      [maxTokens |-> JsNumber(200), temperature |-> JsNumber(0)] }

\* the options of /api/generate: { maxTokens, temperature, ... } built from
\* the destructured body, so both properties exist whatever the body held
GenerateOptions(body) ==
    [maxTokens |-> body.maxTokens, temperature |-> body.temperature]

\* { maxTokens: 400, schema }
SchemaOptions == [maxTokens |-> JsNumber(400), temperature |-> Absent]

\* { maxTokens: 100, temperature: 0.7 }
BenchmarkOptions == [maxTokens |-> JsNumber(100), temperature |-> JsNumber(7)]

\* { maxTokens: 400, temperature: 0.7 } (/api/business/email; the other
\* routes of the group pass both properties as well)
BusinessOptions == [maxTokens |-> JsNumber(400), temperature |-> JsNumber(7)]

\* POST /api/generate: logRequest, then the handler up to its first await
ReceiveGenerate(s, provider, hasPrompt, body) ==
    /\ CanReceive(s)
    /\ usageStats' = LogRequest(usageStats)
    /\ slots' = [slots EXCEPT ![s] =
                    LET sl == [IdleSlot EXCEPT !.ep = "generate"]
                    IN  IF ~hasPrompt THEN Respond(sl, 400)
                        ELSE BeginCall([sl EXCEPT !.options = GenerateOptions(body)],
                                       provider, env, enableFallback)]
    /\ UNCHANGED <<env, enableFallback, probe>>

\* POST /api/schema
ReceiveSchema(s) ==
    /\ CanReceive(s)
    /\ usageStats' = LogRequest(usageStats)
    /\ slots' = [slots EXCEPT ![s] =
                    BeginCall([IdleSlot EXCEPT !.ep = "schema",
                                               !.options = SchemaOptions],
                              "auto", env, enableFallback)]
    /\ UNCHANGED <<env, enableFallback, probe>>

\* POST /api/benchmark: the first iteration of the loop over ALL_PROVIDERS
ReceiveBenchmark(s) ==
    /\ CanReceive(s)
    /\ usageStats' = LogRequest(usageStats)
    /\ slots' = [slots EXCEPT ![s] =
                    BeginCall([IdleSlot EXCEPT !.ep = "benchmark",
                                               !.options = BenchmarkOptions],
                              ALL_PROVIDERS[1], env, enableFallback)]
    /\ UNCHANGED <<env, enableFallback, probe>>

\* POST /api/business/..., /api/creative/..., /api/developer/..., /api/ai/...
\* (the /api/ai routes answer 400 when a required field is missing)
ReceiveBusiness(s, valid) ==
    /\ CanReceive(s)
    /\ usageStats' = LogRequest(usageStats)
    /\ slots' = [slots EXCEPT ![s] =
                    LET sl == [IdleSlot EXCEPT !.ep = "business",
                                               !.options = BusinessOptions]
                    IN  IF ~valid THEN Respond(sl, 400)
                        ELSE BeginCall(sl, "auto", env, enableFallback)]
    /\ UNCHANGED <<env, enableFallback, probe>>

\* an analytics handler that starts a new error count once it has reported
AnalyticsHandlerStatsResetting(u) == [u EXCEPT !.errors = 0]

\* the handler of /api/analytics reads usageStats and writes nothing
AnalyticsHandlerStats(u) == u

\* GET /api/analytics: logRequest, then the handler
ReceiveAnalytics(s) ==
    /\ CanReceive(s)
    /\ usageStats' = AnalyticsHandlerStats(LogRequest(usageStats))
    /\ slots' = [slots EXCEPT ![s] =
                    Respond([IdleSlot EXCEPT !.ep = "analytics"], 200)]
    /\ UNCHANGED <<env, enableFallback, probe>>

\* createAIProvider resolves: generate is called and awaited
CreateProviderReturns(s) ==
    /\ Creating(s)
    /\ slots' = [slots EXCEPT ![s] =
                    [@ EXCEPT !.pc = "generating",
                              !.invoked = GenerateParams(slots[s].options),
                              !.result = JsUndefined]]
    /\ UNCHANGED <<env, enableFallback, usageStats, probe>>

\* createAIProvider rejects
CreateProviderThrows(s, error) ==
    /\ Creating(s)
    /\ slots' = [slots EXCEPT ![s] =
                    OnAttemptError([@ EXCEPT !.result = JsUndefined], error)]
    /\ UNCHANGED <<env, enableFallback, usageStats, probe>>

\* generate resolves
GenerateReturns(s, result) ==
    /\ Generating(s)
    /\ slots' = [slots EXCEPT ![s] = OnResponse(@, result)]
    /\ usageStats' = StatsOnResponse(usageStats, result)
    /\ UNCHANGED <<env, enableFallback, probe>>

\* generate rejects (an error of the provider, or its timeout)
GenerateThrows(s, error) ==
    /\ Generating(s)
    /\ slots' = [slots EXCEPT ![s] = OnAttemptError(@, error)]
    /\ UNCHANGED <<env, enableFallback, usageStats, probe>>

\* /api/generate after the call: the success response, or the catch block
GenerateHandlerStatus(ret) == IF ret.kind = "result" THEN 200 ELSE 500

GenerateHandlerStats(u, ret) == IF ret.kind = "result" THEN u ELSE CountError(u)

ResumeGenerate(s) ==
    /\ Settled(s, "generate")
    /\ slots' = [slots EXCEPT ![s] = Respond(@, GenerateHandlerStatus(@.ret))]
    /\ usageStats' = GenerateHandlerStats(usageStats, slots[s].ret)
    /\ UNCHANGED <<env, enableFallback, probe>>

\* /api/schema after the call: JSON.parse may throw into the same catch block
SchemaHandlerStatus(ret) ==
    IF ret.kind = "result" /\ ParsesAsJson(ret.content) THEN 200 ELSE 500

SchemaHandlerStats(u, ret) == u

ResumeSchema(s) ==
    /\ Settled(s, "schema")
    /\ slots' = [slots EXCEPT ![s] = Respond(@, SchemaHandlerStatus(@.ret))]
    /\ usageStats' = SchemaHandlerStats(usageStats, slots[s].ret)
    /\ UNCHANGED <<env, enableFallback, probe>>

\* a route without try/catch: the rejection reaches the global error handler
BusinessHandlerStatus(ret) == IF ret.kind = "result" THEN 200 ELSE 500

GlobalErrorHandlerStats(u, ret) == IF ret.kind = "result" THEN u ELSE CountError(u)

ResumeBusiness(s) ==
    /\ Settled(s, "business")
    /\ slots' = [slots EXCEPT ![s] = Respond(@, BusinessHandlerStatus(@.ret))]
    /\ usageStats' = GlobalErrorHandlerStats(usageStats, slots[s].ret)
    /\ UNCHANGED <<env, enableFallback, probe>>

\* results.results[providerName] as /api/benchmark writes it after a call
BenchmarkEntry(ret) ==
    IF ret.kind = "result"
    THEN [success |-> TRUE, usage |-> ret.usage, content |-> ret.content]
    ELSE [success |-> FALSE, error |-> ret.message]

\* /api/benchmark after a call: the entry is stored, then the next provider
BenchmarkHandlerStats(u, ret) == u

ResumeBenchmark(s) ==
    /\ Settled(s, "benchmark")
    /\ slots' = [slots EXCEPT ![s] =
                    IF @.callNo < Len(ALL_PROVIDERS)
                    THEN BeginCall(@, ALL_PROVIDERS[@.callNo + 1],
                                   env, enableFallback)
                    ELSE Respond(@, 200)]
    /\ usageStats' = BenchmarkHandlerStats(usageStats, slots[s].ret)
    /\ UNCHANGED <<env, enableFallback, probe>>

\* the response is sent and the request's objects are dropped
Finish(s) ==
    /\ slots[s].pc = "responded"
    /\ slots' = [slots EXCEPT ![s] = IdleSlot]
    /\ UNCHANGED <<env, enableFallback, usageStats, probe>>

Next ==
    \/ \E s \in DOMAIN slots, p \in RequestedProviders, hasPrompt \in BOOLEAN,
          body \in GenerateBodies :
           ReceiveGenerate(s, p, hasPrompt, body)
    \/ \E s \in DOMAIN slots : ReceiveSchema(s)
    \/ \E s \in DOMAIN slots : ReceiveBenchmark(s)
    \/ \E s \in DOMAIN slots, valid \in BOOLEAN : ReceiveBusiness(s, valid)
    \/ \E s \in DOMAIN slots : ReceiveAnalytics(s)
    \/ \E s \in DOMAIN slots : CreateProviderReturns(s)
    \/ \E s \in DOMAIN slots, e \in Thrown : CreateProviderThrows(s, e)
    \/ \E s \in DOMAIN slots, r \in Responses : GenerateReturns(s, r)
    \/ \E s \in DOMAIN slots, e \in Thrown : GenerateThrows(s, e)
    \/ \E s \in DOMAIN slots : ResumeGenerate(s)
    \/ \E s \in DOMAIN slots : ResumeSchema(s)
    \/ \E s \in DOMAIN slots : ResumeBenchmark(s)
    \/ \E s \in DOMAIN slots : ResumeBusiness(s)
    \/ \E s \in DOMAIN slots : Finish(s)

Spec == Init /\ [][Next]_vars


(***************************************************************************)
(* Overlapping requests: MaxConcurrent requests in flight, each suspended  *)
(* at its awaits while the others run.  No API key is configured and       *)
(* ENABLE_FALLBACK is unset, so the candidates are the requested provider  *)
(* and the local one.                                                      *)
(***************************************************************************)
\* the provider field of the /api/generate bodies of overlapping requests
ConcProviders == {"openai"}

\* the /api/generate bodies of overlapping requests omit maxTokens and
\* temperature
ConcBodies == {[maxTokens |-> JsUndefined, temperature |-> JsUndefined]}

InitConc ==
    /\ env = {}
    /\ enableFallback = JsUndefined
    /\ usageStats = [requests |-> 0, providers |-> {}, errors |-> 0,
                    totalTokens |-> 0]
    /\ slots = [s \in 1..MaxConcurrent |-> IdleSlot]
    /\ probe = IdleProbe

NextConc ==
    \/ \E s \in DOMAIN slots, p \in ConcProviders, hasPrompt \in BOOLEAN,
          body \in ConcBodies :
           ReceiveGenerate(s, p, hasPrompt, body)
    \/ \E s \in DOMAIN slots, valid \in BOOLEAN : ReceiveBusiness(s, valid)
    \/ \E s \in DOMAIN slots : CreateProviderReturns(s)
    \/ \E s \in DOMAIN slots, e \in Thrown : CreateProviderThrows(s, e)
    \/ \E s \in DOMAIN slots, r \in Responses : GenerateReturns(s, r)
    \/ \E s \in DOMAIN slots, e \in Thrown : GenerateThrows(s, e)
    \/ \E s \in DOMAIN slots : ResumeGenerate(s)
    \/ \E s \in DOMAIN slots : ResumeBusiness(s)
    \/ \E s \in DOMAIN slots : Finish(s)

SpecConc == InitConc /\ [][NextConc]_vars


(***************************************************************************)
(* One request at a time with provider calls that settle: every            *)
(* createAIProvider and generate call that is awaited eventually resolves  *)
(* or rejects.  Vertex is configured, so an auto call has two candidates   *)
(* and a call for openai three.                                            *)
(***************************************************************************)
InitLive ==
    /\ env = {"GOOGLE_VERTEX_PROJECT"}
    /\ enableFallback = JsUndefined
    /\ usageStats = [requests |-> 0, providers |-> {}, errors |-> 0,
                    totalTokens |-> 0]
    /\ slots = <<IdleSlot>>
    /\ probe = IdleProbe

\* the provider call the request of slot s awaits resolves or rejects
ProviderCallSettles(s) ==
    \/ CreateProviderReturns(s)
    \/ \E e \in Thrown : CreateProviderThrows(s, e)
    \/ \E r \in Responses : GenerateReturns(s, r)
    \/ \E e \in Thrown : GenerateThrows(s, e)

SpecLive == InitLive /\ [][NextConc]_vars /\ WF_vars(ProviderCallSettles(1))


(***************************************************************************)
(* Requests that fail in the middleware: express.json, installed before    *)
(* logRequest, passes a body it cannot parse (or one over its size limit)  *)
(* to next(err); Express then skips logRequest and the routes and calls    *)
(* the global error handler.                                               *)
(***************************************************************************)
\* a request with a body express.json rejects: the global error handler
\* counts an error and answers with the status of the error (400)
ReceiveUnparsable(s) ==
    /\ slots[s].pc = "idle"
    /\ usageStats.errors < usageStats.requests + MaxUnparsable
    /\ usageStats' = CountError(usageStats)
    /\ slots' = [slots EXCEPT ![s] =
                    Respond([IdleSlot EXCEPT !.ep = "unparsable"], 400)]
    /\ UNCHANGED <<env, enableFallback, probe>>

NextBody ==
    \/ \E s \in DOMAIN slots : ReceiveUnparsable(s)
    \/ \E s \in DOMAIN slots : ReceiveAnalytics(s)
    \/ \E s \in DOMAIN slots, p \in ConcProviders, hasPrompt \in BOOLEAN,
          body \in ConcBodies :
           ReceiveGenerate(s, p, hasPrompt, body)
    \/ \E s \in DOMAIN slots, valid \in BOOLEAN : ReceiveBusiness(s, valid)
    \/ \E s \in DOMAIN slots : CreateProviderReturns(s)
    \/ \E s \in DOMAIN slots, e \in Thrown : CreateProviderThrows(s, e)
    \/ \E s \in DOMAIN slots, r \in Responses : GenerateReturns(s, r)
    \/ \E s \in DOMAIN slots, e \in Thrown : GenerateThrows(s, e)
    \/ \E s \in DOMAIN slots : ResumeGenerate(s)
    \/ \E s \in DOMAIN slots : ResumeBusiness(s)
    \/ \E s \in DOMAIN slots : Finish(s)

SpecBody == InitLive /\ [][NextBody]_vars


(***************************************************************************)
(* The prober: testProviderAvailability (server.js 209-306)                *)
(***************************************************************************)
\* the status with which the catch block leaves, authenticated cleared in
\* every branch
ProbeFailureStatusUnauthenticated(st, errorMsg) ==
    [st EXCEPT !.available = FALSE,
               !.authenticated = FALSE,
               !.error = JsText(ErrorText(Classify(errorMsg), errorMsg))]

\* the status with which the catch block leaves
ProbeFailureStatus(st, errorMsg) ==
    [st EXCEPT !.available = FALSE,
               !.authenticated = (Classify(errorMsg) = "RateLimited"),
               !.error = JsText(ErrorText(Classify(errorMsg), errorMsg))]

\* the status after the test generation returned
ProbeSuccessStatus(st) == [st EXCEPT !.available = TRUE, !.authenticated = TRUE]

\* `Missing required environment variables: ${vars.join(", ") || "Unknown"}`
MissingEnvError(provider) ==
    <<"Missing", "required", "environment", "variables:">>
    \o (IF RequiredVars(provider) = <<>> THEN <<"Unknown">>
        ELSE RequiredVars(provider))

\* the environment check returning the status without an error
MissingEnvStatusSilent(provider) == FreshStatus

\* the status returned when the environment check fails
MissingEnvStatus(provider) ==
    [FreshStatus EXCEPT !.error = JsText(MissingEnvError(provider))]

OllamaNotRunning ==
    <<"Ollama", "is", "not", "running.", "Please", "start", "Ollama", "with:",
      "ollama", "serve">>

\* how the fetch of the Ollama tags endpoint can end: a 2xx response, another
\* response, or a rejection (connection refused, or the 2000 ms abort signal)
FetchOutcomes == {"ok", "notok", "rejected"}

\* testOllamaConnection: response.ok, or false from its catch block
TestOllamaConnection(outcome) == outcome = "ok"

\* the Ollama branch reporting configured as isProviderConfigured does
OllamaStatusAlwaysConfigured(isRunning) ==
    [FreshStatus EXCEPT
        !.configured = TRUE,
        !.available = isRunning,
        !.authenticated = isRunning,
        !.error = IF isRunning THEN JsNull ELSE JsText(OllamaNotRunning)]

\* the status the Ollama branch returns
OllamaStatus(isRunning) ==
    [FreshStatus EXCEPT
        !.configured = isRunning,
        !.available = isRunning,
        !.authenticated = isRunning,
        !.error = IF isRunning THEN JsNull ELSE JsText(OllamaNotRunning)]

\* testProviderAvailability(providerName) up to its first await or return
ProbeEntry(providerName, e) ==
    LET called == [IdleProbe EXCEPT !.providerName = providerName]
    IN  IF providerName = "ollama"
        THEN [called EXCEPT !.pc = "fetching", !.calls.fetch = 1]
        ELSE IF ~IsProviderConfiguredIn(providerName, e)
        THEN [called EXCEPT !.pc = "done",
                            !.result = MissingEnvStatus(providerName)]
        ELSE [called EXCEPT !.pc = "creating",
                            !.result.configured = TRUE,
                            !.calls.create = 1]

\* the catch block rethrowing the errors it does not recognise
ProbeOnErrorRethrowUnknown(pr, error) ==
    IF Classify(ErrorMessage(error)) = "Unknown"
    THEN [pr EXCEPT !.pc = "raised",
                    !.caught = ErrorMessage(error),
                    !.kind = "Unknown"]
    ELSE [pr EXCEPT !.pc = "done",
                    !.result = ProbeFailureStatus(@, ErrorMessage(error)),
                    !.caught = ErrorMessage(error),
                    !.kind = Classify(ErrorMessage(error))]

\* the catch block of testProviderAvailability
ProbeOnError(pr, error) ==
    [pr EXCEPT !.pc = "done",
               !.result = ProbeFailureStatus(@, ErrorMessage(error)),
               !.caught = ErrorMessage(error),
               !.kind = Classify(ErrorMessage(error))]

\* the provider names a status check is made for: the nine of ALL_PROVIDERS
\* and a name PROVIDER_ENV_VARS does not know
ProbedProviders == Range(ALL_PROVIDERS) \cup {"cohere"}

\* environment variables that may be set when a status check is made
ProbeEnvUniverse ==
    {"OPENAI_API_KEY", "AWS_ACCESS_KEY_ID", "AWS_SECRET_ACCESS_KEY",
     "GOOGLE_VERTEX_PROJECT", "GOOGLE_APPLICATION_CREDENTIALS"}

\* messages of the errors createAIProvider or the test generation can
\* reject with, besides those of Thrown
ProbeMessages ==
    { <<"Unauthorized">>, <<"unauthorized">>,
      <<"Invalid", "API", "key">>,
      <<"Not", "Found">>, <<"model", "not", "found">>,
      <<"Rate", "limit">>, <<"rate", "limit">>,
      <<"429", "Too", "Many", "Requests">>,
      <<"429", "after", "401">>,
      <<"404", "rate", "limit">>,
      <<"rate", "limit", "timeout">>,
      <<"connect", "ECONNREFUSED">>,
      <<"Rate", "limit", "exceeded">>,
      <<"boom">>,
      <<>> }

ProbeThrown == Thrown \cup {Err(msg) : msg \in ProbeMessages}

\* testProviderAvailability is called
ProbeBegin(providerName) ==
    /\ probe.pc = "idle"
    /\ probe' = ProbeEntry(providerName, env)
    /\ UNCHANGED <<env, enableFallback, usageStats, slots>>

\* the fetch of testOllamaConnection settles and the Ollama branch returns
OllamaFetchSettles(outcome) ==
    /\ probe.pc = "fetching"
    /\ probe' = [probe EXCEPT
                    !.pc = "done",
                    !.fetched = outcome,
                    !.result = OllamaStatus(TestOllamaConnection(outcome))]
    /\ UNCHANGED <<env, enableFallback, usageStats, slots>>

\* createAIProvider resolves: the test generation is requested
ProbeCreateReturns ==
    /\ probe.pc = "creating"
    /\ probe' = [probe EXCEPT !.pc = "generating", !.calls.generate = @ + 1]
    /\ UNCHANGED <<env, enableFallback, usageStats, slots>>

\* createAIProvider rejects
ProbeCreateThrows(error) ==
    /\ probe.pc = "creating"
    /\ probe' = ProbeOnError(probe, error)
    /\ UNCHANGED <<env, enableFallback, usageStats, slots>>

\* the test generation resolves, to whatever value
ProbeGenerateReturns ==
    /\ probe.pc = "generating"
    /\ probe' = [probe EXCEPT !.pc = "done",
                              !.result = ProbeSuccessStatus(@)]
    /\ UNCHANGED <<env, enableFallback, usageStats, slots>>

\* the test generation rejects
ProbeGenerateThrows(error) ==
    /\ probe.pc = "generating"
    /\ probe' = ProbeOnError(probe, error)
    /\ UNCHANGED <<env, enableFallback, usageStats, slots>>

\* the caller has taken the returned status
ProbeReturns ==
    /\ probe.pc = "done"
    /\ probe' = IdleProbe
    /\ UNCHANGED <<env, enableFallback, usageStats, slots>>

InitProbe ==
    /\ env \in SUBSET ProbeEnvUniverse
    /\ enableFallback = JsUndefined
    /\ usageStats = [requests |-> 0, providers |-> {}, errors |-> 0,
                    totalTokens |-> 0]
    /\ slots = <<IdleSlot>>
    /\ probe = IdleProbe

NextProbe ==
    \/ \E p \in ProbedProviders : ProbeBegin(p)
    \/ \E outcome \in FetchOutcomes : OllamaFetchSettles(outcome)
    \/ ProbeCreateReturns
    \/ \E e \in ProbeThrown : ProbeCreateThrows(e)
    \/ ProbeGenerateReturns
    \/ \E e \in ProbeThrown : ProbeGenerateThrows(e)
    \/ ProbeReturns

SpecProbe == InitProbe /\ [][NextProbe]_vars


(***************************************************************************)
(* GET /api/status (server.js 509-542): the nine providers are tested one  *)
(* after the other and the report is built from their statuses.            *)
(***************************************************************************)
\* configuration.fallbackEnabled: process.env.ENABLE_FALLBACK === "true"
StatusFallbackEnabled(fb) == fb = JsString("true")

\* status.bestProvider: the first of ALL_PROVIDERS whose status has
\* authenticated true, null when there is none
BestProvider(providers) ==
    LET authenticatedProviders ==
            SelectSeqBy(ALL_PROVIDERS,
                        {p \in Range(ALL_PROVIDERS) : providers[p].authenticated})
    IN  IF Len(authenticatedProviders) > 0
        THEN JsString(authenticatedProviders[1])
        ELSE JsNull

\* environment variables that may be set when the status is requested
StatusEnvUniverse == {"OPENAI_API_KEY", "GOOGLE_VERTEX_PROJECT"}

\* values of ENABLE_FALLBACK when the status is requested
StatusFallbackValues == FallbackValues \cup {JsString("1")}

\* what createAIProvider or the test generation reject with while the
\* status is built
StatusThrown ==
    { Err(<<"401", "Unauthorized">>),
      Err(<<"429", "Too", "Many", "Requests">>),
      Err(<<"boom">>) }

\* GET /api/status: logRequest, then the handler up to the await of the
\* first testProviderAvailability
ReceiveStatus(s) ==
    /\ CanReceive(s)
    /\ probe.pc = "idle"
    /\ usageStats' = LogRequest(usageStats)
    /\ slots' = [slots EXCEPT ![s] =
                    [IdleSlot EXCEPT
                        !.ep = "status",
                        !.pc = "probing",
                        !.report.fallbackEnabled =
                            StatusFallbackEnabled(enableFallback)]]
    /\ probe' = ProbeEntry(ALL_PROVIDERS[1], env)
    /\ UNCHANGED <<env, enableFallback>>

\* testProviderAvailability has returned: its status is stored, and the next
\* provider is tested or the report is completed and sent
StatusProbeReturns(s) ==
    /\ slots[s].pc = "probing"
    /\ probe.pc = "done"
    /\ LET providers ==
               (probe.providerName :> probe.result) @@ slots[s].report.providers
           tested == Cardinality(DOMAIN providers)
       IN  IF tested < Len(ALL_PROVIDERS)
           THEN /\ slots' = [slots EXCEPT ![s].report.providers = providers]
                /\ probe' = ProbeEntry(ALL_PROVIDERS[tested + 1], env)
           ELSE /\ slots' = [slots EXCEPT ![s] =
                       Respond([@ EXCEPT
                                   !.report.providers = providers,
                                   !.report.bestProvider = BestProvider(providers)],
                               200)]
                /\ probe' = IdleProbe
    /\ UNCHANGED <<env, enableFallback, usageStats>>

InitStatus ==
    /\ env \in SUBSET StatusEnvUniverse
    /\ enableFallback \in StatusFallbackValues
    /\ usageStats = [requests |-> 0, providers |-> {}, errors |-> 0,
                    totalTokens |-> 0]
    /\ slots = <<IdleSlot>>
    /\ probe = IdleProbe

NextStatus ==
    \/ \E s \in DOMAIN slots : ReceiveStatus(s)
    \/ \E outcome \in FetchOutcomes : OllamaFetchSettles(outcome)
    \/ ProbeCreateReturns
    \/ \E e \in StatusThrown : ProbeCreateThrows(e)
    \/ ProbeGenerateReturns
    \/ \E e \in StatusThrown : ProbeGenerateThrows(e)
    \/ \E s \in DOMAIN slots : StatusProbeReturns(s)
    \/ \E s \in DOMAIN slots : Finish(s)

SpecStatus == InitStatus /\ [][NextStatus]_vars


(***************************************************************************)
(* Properties                                                              *)
(***************************************************************************)
\* the calls of generateWithProvider that returned a result object
ReturnedResult(sl) ==
    sl.pc \in {"returned", "responded"} /\ sl.ret.kind = "result"

\* C1: first success wins.  When a call returns a result, the K attempts it
\* started are the first K candidates in order, the K-1 before the last all
\* failed, no candidate after the K-th was attempted, and the result names
\* the K-th provider with attemptedProviders = K and fallbackUsed = (K > 1).
FirstSuccessWins ==
    \A s \in DOMAIN slots :
        LET sl == slots[s]
            K == Len(sl.started)
        IN  ReturnedResult(sl) =>
                /\ K >= 1
                /\ K <= Len(sl.providersToTry)
                /\ sl.started = SubSeq(sl.providersToTry, 1, K)
                /\ Len(sl.errors) = K - 1
                /\ sl.open = {}
                /\ sl.ret.provider = sl.providersToTry[K]
                /\ sl.ret.attemptedProviders = K
                /\ sl.ret.fallbackUsed = (K > 1)

\* a call returned on its second candidate while a third one was left
FirstSuccessWinsWitness ==
    \E s \in DOMAIN slots :
        /\ slots[s].pc = "returned"
        /\ slots[s].ret.kind = "result"
        /\ Len(slots[s].started) = 2
        /\ Len(slots[s].providersToTry) >= 3

\* C2: exhaustion produces an aggregate error.  When all N candidates
\* failed, the error thrown to the caller mentions each of the N provider
\* names and the count N.
AggregateErrorMentionsAll ==
    \A s \in DOMAIN slots :
        LET sl == slots[s]
            N == Len(sl.providersToTry)
        IN  sl.pc = "threw" =>
                /\ Mentions(sl.ret.message, ToString(N))
                /\ \A k \in 1..N : Mentions(sl.ret.message, sl.providersToTry[k])

\* C3: empty text is a failure.  A result always carries non-empty content,
\* and after generate resolved to a missing response or to an empty or null
\* text the call stands where a thrown error leaves it: the error is
\* recorded for that candidate, and either the next candidate is being
\* attempted or, if it was the last, the call has thrown.
EmptyTextIsFailure ==
    \A s \in DOMAIN slots :
        LET sl == slots[s]
            n == Len(sl.errors)
        IN  /\ ReturnedResult(sl) =>
                /\ sl.ret.content.t = "string"
                /\ sl.ret.content.v # ""
            /\ (/\ sl.pc \in {"creating", "returned", "threw"}
                /\ sl.result \in Responses
                /\ InvalidResponse(sl.result)) =>
                /\ n >= 1
                /\ sl.errors[n] =
                      <<sl.providersToTry[n], ":">> \o InvalidResponseMessage
                /\ sl.ret.kind # "result"
                /\ IF n = Len(sl.providersToTry)
                   THEN sl.pc = "threw" /\ sl.ret.kind = "error"
                   ELSE /\ sl.pc = "creating"
                        /\ sl.i = n + 1
                        /\ sl.started = SubSeq(sl.providersToTry, 1, n + 1)

\* the next candidate is being attempted after a response with empty text
EmptyTextIsFailureWitness ==
    \E s \in DOMAIN slots :
        /\ slots[s].pc = "creating"
        /\ slots[s].result = JsObject([text |-> JsString(""), usage |-> JsUndefined])
        /\ slots[s].i = 2


\* the names of the priority list
ProviderNames == Range(ALL_PROVIDERS)

\* the place of a provider in the priority list
PriorityIndex(p) == CHOOSE k \in 1..Len(ALL_PROVIDERS) : ALL_PROVIDERS[k] = p

\* providers of the priority list, in the relative order of that list
InPriorityOrder(seq) ==
    /\ Range(seq) \subseteq ProviderNames
    /\ \A j \in 1..Len(seq) : \A k \in (j + 1)..Len(seq) :
           PriorityIndex(seq[j]) < PriorityIndex(seq[k])

NoDuplicates(seq) ==
    \A j \in 1..Len(seq) : \A k \in (j + 1)..Len(seq) : seq[j] # seq[k]

\* a slot whose handler has called generateWithProvider
InCall(sl) == sl.callNo >= 1

\* C4: auto-mode candidate list.  In a call for "auto" the candidates are
\* the providers of the priority list whose configuration check is true, in
\* priority order, and every provider attempted is one of them, attempted
\* in that order.
AutoCandidates ==
    \A s \in DOMAIN slots :
        LET sl == slots[s]
        IN  (InCall(sl) /\ sl.providerName = "auto") =>
                /\ \A p \in ProviderNames :
                       p \in Range(sl.providersToTry)
                           <=> IsProviderConfiguredIn(p, env)
                /\ InPriorityOrder(sl.providersToTry)
                /\ InPriorityOrder(sl.started)
                /\ \A k \in 1..Len(sl.started) :
                       /\ IsProviderConfiguredIn(sl.started[k], env)
                       /\ sl.started[k] = sl.providersToTry[k]

\* an auto call went from vertex to ollama, past a half-configured bedrock
AutoCandidatesWitness ==
    /\ "AWS_ACCESS_KEY_ID" \in env
    /\ "AWS_SECRET_ACCESS_KEY" \notin env
    /\ \E s \in DOMAIN slots :
           /\ slots[s].providerName = "auto"
           /\ slots[s].started = <<"vertex", "ollama">>

\* C5: explicit-mode candidate list.  In a call for a provider P the list
\* starts with P, configured or not, and P is nowhere else in it; with
\* ENABLE_FALLBACK = "false" the list is [P], otherwise P is followed by the
\* configured providers other than P in priority order.  With fallback
\* disabled and P failing, one attempt was made and the error thrown is the
\* final error built from the message of P, naming no other provider.
ExplicitCandidates ==
    \A s \in DOMAIN slots :
        LET sl == slots[s]
            P == sl.providerName
            list == sl.providersToTry
            others == Range(Tail(list))
        IN  (InCall(sl) /\ P # "auto") =>
                /\ Len(list) >= 1
                /\ list[1] = P
                /\ \A k \in 2..Len(list) : list[k] # P
                /\ IF enableFallback = JsString("false")
                   THEN list = <<P>>
                   ELSE /\ \A p \in ProviderNames :
                               p \in others
                                   <=> (p # P /\ IsProviderConfiguredIn(p, env))
                        /\ InPriorityOrder(Tail(list))
                /\ (enableFallback = JsString("false") /\ sl.pc = "threw") =>
                        /\ sl.started = <<P>>
                        /\ Len(sl.errors) = 1
                        /\ sl.errors[1][1] = P
                        /\ sl.ret.message =
                              <<"Failed after", "1", "attempts. Last error:">>
                              \o SubSeq(sl.errors[1], 3, Len(sl.errors[1]))
                        /\ \A p \in ProviderNames \ {P} :
                               ~Mentions(sl.ret.message, p)

\* fallback is disabled and the call for the unconfigured openai has thrown
ExplicitCandidatesWitness ==
    /\ enableFallback = JsString("false")
    /\ \E s \in DOMAIN slots :
           /\ slots[s].providerName = "openai"
           /\ ~IsProviderConfiguredIn("openai", env)
           /\ slots[s].pc = "threw"

\* C7: no retries.  The candidate list holds no provider twice, no provider
\* is attempted twice in one call, and the attempts made never outnumber
\* the candidates.
NoRetries ==
    \A s \in DOMAIN slots :
        LET sl == slots[s]
        IN  /\ NoDuplicates(sl.providersToTry)
            /\ NoDuplicates(sl.started)
            /\ Len(sl.started) <= Len(sl.providersToTry)
            /\ Len(sl.errors) <= Len(sl.started)

\* a call for the configured ollama went through a list of two or more
NoRetriesWitness ==
    \E s \in DOMAIN slots :
        /\ slots[s].providerName = "ollama"
        /\ slots[s].pc = "threw"
        /\ Len(slots[s].providersToTry) >= 2
        /\ Len(slots[s].started) = Len(slots[s].providersToTry)


\* an attempt of the slot is in flight
Attempting(sl) == sl.pc \in {"creating", "generating"}

\* the step in which the attempt in flight in slot s fails, for any reason
AttemptFails(s) ==
    /\ Attempting(slots[s])
    /\ slots'[s].callNo = slots[s].callNo
    /\ Len(slots'[s].errors) = Len(slots[s].errors) + 1

\* C6: a single candidate's failure never aborts the sequence.  When the
\* attempt on a candidate that is not the last fails (a rejection of
\* createAIProvider or of generate, a timeout, an invalid response), the
\* failure is recorded and the next candidate is attempted in the same
\* step; the call throws only in the step in which its last candidate fails.
FailureNeverAborts ==
    [][ \A s \in DOMAIN slots :
            /\ AttemptFails(s) =>
                  IF slots[s].i < Len(slots[s].providersToTry)
                  THEN /\ slots'[s].pc = "creating"
                       /\ slots'[s].i = slots[s].i + 1
                       /\ slots'[s].started =
                             Append(slots[s].started,
                                    slots[s].providersToTry[slots[s].i + 1])
                       /\ slots'[s].ret = NoReturn
                  ELSE slots'[s].pc = "threw"
            /\ (slots[s].pc # "threw" /\ slots'[s].pc = "threw") =>
                  /\ AttemptFails(s)
                  /\ slots[s].i = Len(slots[s].providersToTry)
                  /\ Len(slots'[s].errors) = Len(slots[s].providersToTry)
      ]_vars

\* the second candidate is being attempted after the first one timed out
FailureNeverAbortsWitness ==
    \E s \in DOMAIN slots :
        /\ slots[s].pc = "generating"
        /\ slots[s].i = 2
        /\ Len(slots[s].errors) = 1
        /\ Mentions(slots[s].errors[1], "timeout")

\* C8: strict sequencing inside one call.  Whatever the other requests do,
\* a call has at most one attempt in flight, the attempts it started are
\* the leading candidates of its list in order, and every attempt before
\* the one in flight has ended in a recorded failure.
StrictSequencing ==
    \A s \in DOMAIN slots :
        LET sl == slots[s]
            n == Len(sl.started)
        IN  /\ Cardinality(sl.open) <= 1
            /\ n <= Len(sl.providersToTry)
            /\ sl.started = SubSeq(sl.providersToTry, 1, n)
            /\ Attempting(sl) =>
                  /\ sl.open = {sl.i}
                  /\ n = sl.i
                  /\ Len(sl.errors) = n - 1
            /\ ~Attempting(sl) => sl.open = {}

\* one request attempts its second candidate while another request has an
\* attempt of its own in flight
StrictSequencingWitness ==
    \E s, t \in DOMAIN slots :
        /\ s # t
        /\ slots[s].pc = "generating"
        /\ slots[s].i = 2
        /\ Attempting(slots[t])


\* the step in which the handler of slot s calls generateWithProvider
CallBegins(s) == slots'[s].callNo = slots[s].callNo + 1

\* the step in which slot s takes an HTTP request (logRequest runs)
RequestArrives(s) == slots[s].pc = "idle" /\ slots'[s].pc # "idle"

\* C9 as stated: every call of generateWithProvider increments
\* usageStats.requests by exactly 1, whatever route issued the call.
EveryGenerateCallCountsOneRequest ==
    [][ \A s \in DOMAIN slots :
            CallBegins(s) => usageStats'.requests = usageStats.requests + 1
      ]_vars

\* C9 as amended: usageStats.requests is incremented by exactly 1 when an
\* HTTP request arrives (logRequest), whatever its route and whether or not
\* its handler calls generateWithProvider, and by nothing else: the calls
\* of generateWithProvider and their attempts leave it unchanged, so a
\* route making one call counts 1 for it and /api/benchmark counts 1 for
\* its nine calls.
EveryHttpRequestCountsOneRequest ==
    [][ /\ \A s \in DOMAIN slots :
               RequestArrives(s) =>
                   usageStats'.requests = usageStats.requests + 1
        /\ (\A s \in DOMAIN slots : ~RequestArrives(s)) =>
               usageStats'.requests = usageStats.requests
      ]_vars

\* the one benchmark request counted so far is in its third call
EveryHttpRequestCountsOneRequestWitness ==
    /\ usageStats.requests = 1
    /\ \E s \in DOMAIN slots :
           /\ slots[s].ep = "benchmark"
           /\ slots[s].callNo = 3
           /\ slots[s].pc = "generating"

\* the step in which the handler of slot s resumes after its call threw
FailureHandled(s) == slots[s].pc = "threw" /\ slots'[s].pc # "threw"

\* the step in which the handler of slot s resumes after its call returned
SuccessHandled(s) ==
    /\ slots[s].pc = "returned"
    /\ slots[s].ret.kind = "result"
    /\ slots'[s].pc # "returned"

\* C10: every terminal failure of a generation call increments
\* usageStats.errors by exactly 1, whatever route issued the call, and a
\* successful call leaves errors unchanged.
EveryTerminalFailureCountsOneError ==
    [][ \A s \in DOMAIN slots :
            /\ FailureHandled(s) => usageStats'.errors = usageStats.errors + 1
            /\ SuccessHandled(s) => usageStats'.errors = usageStats.errors
      ]_vars

\* the step in which a call of slot s returns a result
CallReturns(s) ==
    /\ slots[s].pc = "generating"
    /\ slots'[s].pc = "returned"
    /\ slots'[s].ret.kind = "result"

\* the token count a usage payload reports, 0 when there is none
TokensOf(usage) == IF usage.t = "object" THEN usage.o.totalTokens ELSE 0

\* C11: a call that returns a result whose usage reports T total tokens
\* raises usageStats.totalTokens by exactly T (by 0 when the usage is
\* absent), and every other step, failed attempts and failed calls
\* included, leaves usageStats.totalTokens unchanged.
TokenAccounting ==
    [][ /\ \A s \in DOMAIN slots :
              CallReturns(s) =>
                  usageStats'.totalTokens =
                      usageStats.totalTokens + TokensOf(slots'[s].ret.usage)
        /\ (\A s \in DOMAIN slots : ~CallReturns(s)) =>
              usageStats'.totalTokens = usageStats.totalTokens
      ]_vars

\* a call returned 42 tokens from its second candidate after an attempt that
\* answered without text but with a usage of its own, and 42 is the total
TokenAccountingWitness ==
    \E s \in DOMAIN slots :
        /\ slots[s].pc = "returned"
        /\ slots[s].ret.kind = "result"
        /\ slots[s].ret.usage = JsObject([totalTokens |-> 42])
        /\ Len(slots[s].errors) = 1
        /\ slots[s].errors[1] =
               <<slots[s].providersToTry[1], ":">> \o InvalidResponseMessage
        /\ usageStats.totalTokens = 42

\* the required variables of a provider are satisfied: every one of them is
\* set, or for vertex at least one of them
RequiredSatisfied(provider, e) ==
    IF provider = "vertex"
    THEN Range(PROVIDER_ENV_VARS[provider]) \cap e # {}
    ELSE Range(PROVIDER_ENV_VARS[provider]) \subseteq e

\* C12: fast-fail probe.  A status check of a provider other than ollama
\* whose required environment variables are not satisfied is over at once:
\* configured, available and authenticated are false, the error says which
\* required environment variables are missing, and neither createAIProvider
\* nor generate nor a fetch was called.
FastFailProbe ==
    ( /\ probe.pc # "idle"
      /\ probe.providerName \in Range(ALL_PROVIDERS) \ {"ollama"}
      /\ ~RequiredSatisfied(probe.providerName, env) )
    => /\ probe.pc = "done"
       /\ ~probe.result.configured
       /\ ~probe.result.available
       /\ ~probe.result.authenticated
       /\ probe.result.error =
              JsText(<<"Missing", "required", "environment", "variables:">>
                     \o PROVIDER_ENV_VARS[probe.providerName])
       /\ probe.calls = [fetch |-> 0, create |-> 0, generate |-> 0]

\* bedrock was checked with one of its two variables set
FastFailProbeWitness ==
    /\ probe.pc = "done"
    /\ probe.providerName = "bedrock"
    /\ "AWS_ACCESS_KEY_ID" \in env
    /\ "AWS_SECRET_ACCESS_KEY" \notin env
    /\ ~probe.result.configured
    /\ probe.calls.create = 0

\* C13: ProviderStatus invariant.  Every status testProviderAvailability
\* returns has available => configured, and it has authenticated without
\* available exactly when the catch block took its rate-limit branch; in
\* every other status authenticated => available.
ProviderStatusInvariant ==
    probe.pc = "done" =>
        /\ probe.result.available => probe.result.configured
        /\ (probe.result.authenticated /\ ~probe.result.available)
               <=> probe.kind = "RateLimited"

\* a status returned after the test generation was rejected with a 429
ProviderStatusInvariantWitness ==
    /\ probe.pc = "done"
    /\ probe.caught = <<"429", "Too", "Many", "Requests">>
    /\ probe.calls.generate = 1
    /\ probe.result.authenticated
    /\ probe.result.configured
    /\ ~probe.result.available

\* the status check entered its catch block
ProbeFailed == probe.pc = "done" /\ probe.kind # "none"

\* the caught message matches one of the patterns
ProbeMatches(patterns) == IncludesAny(probe.caught, patterns)

\* C14: classification priority.  The caught message is tested for the
\* kinds in the order Authentication, NotFound, RateLimited,
\* ConnectionFailure and the first that matches decides the reported error;
\* a message holding both "429" and "401" is reported as an authentication
\* failure with authenticated false, and a message matching no pattern is
\* reported verbatim.
ClassificationPriority ==
    ProbeFailed =>
        /\ ProbeMatches(AuthenticationPatterns) =>
               /\ probe.result.error =
                      JsText(<<"Invalid", "API", "key", "or",
                               "authentication", "failed">>)
               /\ ~probe.result.authenticated
        /\ (~ProbeMatches(AuthenticationPatterns)
            /\ ProbeMatches(NotFoundPatterns)) =>
               probe.result.error =
                   JsText(<<"Model", "or", "endpoint", "not", "found">>)
        /\ (~ProbeMatches(AuthenticationPatterns)
            /\ ~ProbeMatches(NotFoundPatterns)
            /\ ProbeMatches(RateLimitPatterns)) =>
               /\ probe.result.error = JsText(<<"Rate", "limit", "exceeded">>)
               /\ probe.result.authenticated
        /\ (~ProbeMatches(AuthenticationPatterns)
            /\ ~ProbeMatches(NotFoundPatterns)
            /\ ~ProbeMatches(RateLimitPatterns)
            /\ ProbeMatches(ConnectionPatterns)) =>
               probe.result.error =
                   JsText(<<"Connection", "failed", "-", "service", "may",
                            "be", "down">>)
        /\ (~ProbeMatches(AuthenticationPatterns)
            /\ ~ProbeMatches(NotFoundPatterns)
            /\ ~ProbeMatches(RateLimitPatterns)
            /\ ~ProbeMatches(ConnectionPatterns)) =>
               probe.result.error = JsText(probe.caught)
        /\ (Includes(probe.caught, <<"429">>)
            /\ Includes(probe.caught, <<"401">>)) =>
               /\ probe.kind = "Authentication"
               /\ ~probe.result.authenticated

\* a status check failed with a message holding both "429" and "401" and
\* reported an authentication failure
ClassificationPriorityWitness ==
    /\ ProbeFailed
    /\ probe.caught = <<"429", "after", "401">>
    /\ probe.result.error =
           JsText(<<"Invalid", "API", "key", "or", "authentication", "failed">>)
    /\ ~probe.result.authenticated

\* a word in lower case, for the words of the modelled messages that hold a
\* capital letter
LowerWord(w) ==
    CASE w = "Unauthorized" -> "unauthorized"
      [] w = "Rate" -> "rate"
      [] w = "Not" -> "not"
      [] w = "Found" -> "found"
      [] w = "Invalid" -> "invalid"
      [] w = "API" -> "api"
      [] w = "Too" -> "too"
      [] w = "Many" -> "many"
      [] w = "Requests" -> "requests"
      [] w = "Request" -> "request"
      [] w = "ECONNREFUSED" -> "econnrefused"
      [] w = "Error" -> "error"
      [] OTHER -> w

\* two messages that differ in letter case only
SameIgnoringCase(m1, m2) ==
    /\ Len(m1) = Len(m2)
    /\ \A k \in 1..Len(m1) : LowerWord(m1[k]) = LowerWord(m2[k])

\* C15: classification is case-insensitive.  Whenever a status check failed
\* with some message, every message that differs from it in letter case
\* only is classified as the same kind.
CaseInsensitiveClassification ==
    ProbeFailed =>
        \A e \in ProbeThrown :
            SameIgnoringCase(ErrorMessage(e), probe.caught) =>
                Classify(ErrorMessage(e)) = probe.kind

\* the calls in which an attempt has failed
CaughtOnce(sl) == Len(sl.errors) >= 1

LocalProviderProbe ==
    (probe.pc # "idle" /\ probe.providerName = "ollama") =>
        /\ probe.calls = [fetch |-> 1, create |-> 0, generate |-> 0]
        /\ (probe.pc = "done" /\ probe.fetched = "ok") =>
               probe.result = [available |-> TRUE, configured |-> TRUE,
                               authenticated |-> TRUE, error |-> JsNull]
        /\ (probe.pc = "done" /\ probe.fetched # "ok") =>
               /\ probe.result.error.t = "text"
               /\ Includes(probe.result.error.v, <<"is", "not", "running.">>)
               /\ ~probe.result.configured
               /\ ~probe.result.available
               /\ ~probe.result.authenticated

\* the status check of ollama is over after its fetch was rejected
LocalProviderProbeWitness ==
    /\ probe.pc = "done"
    /\ probe.providerName = "ollama"
    /\ probe.fetched = "rejected"
    /\ probe.calls.fetch = 1
    /\ ~probe.result.configured

\* The candidate list of a call is never empty: in auto mode it holds
\* ollama, which isProviderConfigured accepts unconditionally, and otherwise
\* it begins with the requested provider.  The loop of generateWithProvider
\* is therefore entered by every call, and no call falls off its end.
CandidateListNeverEmpty ==
    \A s \in DOMAIN slots :
        slots[s].callNo >= 1 =>
            /\ Len(slots[s].providersToTry) >= 1
            /\ slots[s].ret.kind # "undefined"

\* the caller of the call of slot sl supplied a value for the parameter
Supplied(sl, key) == sl.options[key] \notin {Absent, JsUndefined}

\* C19: generation defaults.  In every attempt of a call the provider is
\* invoked with maxTokens 500 and temperature 0.7, except for a parameter
\* the caller supplied a value for, whose value is the caller's; a parameter
\* passed as absent or undefined gets the default.
GenerationDefaults ==
    \A s \in DOMAIN slots :
        slots[s].pc = "generating" =>
            \A key \in {"maxTokens", "temperature"} :
                slots[s].invoked[key] =
                    IF Supplied(slots[s], key)
                    THEN slots[s].options[key]
                    ELSE DEFAULT_GENERATION_PARAMS[key]

\* the providers whose configuration check is true in the environment e
ConfiguredSet(e) ==
    {"ollama"} \cup {p \in Range(ALL_PROVIDERS) \ {"ollama"} :
                        RequiredSatisfied(p, e)}

\* the declared priority list restricted to the configured providers
DeclaredOrder(e) == SelectSeqBy(ALL_PROVIDERS, ConfiguredSet(e))

\* C20: order determinism.  No step writes the environment, and whatever
\* earlier calls did (successes, failures, the usage counters they left),
\* every call for "auto" begins with the configured providers in the
\* declared priority order as its candidate list, starts with the first of
\* them, and attempts them in the order of the list.
OrderDeterminism ==
    [][ /\ env' = env
        /\ enableFallback' = enableFallback
        /\ \A s \in DOMAIN slots :
              (CallBegins(s) /\ slots'[s].providerName = "auto") =>
                  /\ slots'[s].providersToTry = DeclaredOrder(env)
                  /\ slots'[s].started = <<DeclaredOrder(env)[1]>>
        /\ \A s \in DOMAIN slots :
              (InCall(slots[s]) /\ slots[s].providerName = "auto") =>
                  slots[s].started =
                      SubSeq(slots[s].providersToTry, 1, Len(slots[s].started))
      ]_vars

\* a call for "auto" begins on vertex, with ollama next, as the second
\* request of a server whose first request failed and was counted
OrderDeterminismWitness ==
    /\ usageStats.requests = 2
    /\ usageStats.errors = 1
    /\ \E s \in DOMAIN slots :
           /\ slots[s].providerName = "auto"
           /\ slots[s].pc = "creating"
           /\ slots[s].providersToTry = <<"vertex", "ollama">>
           /\ slots[s].started = <<"vertex">>

\* C21: no lost updates.  While requests overlap, every step moves the
\* counters by what happened in it and nothing else: requests by one for
\* each request received, errors by one for each failed call its handler
\* counts, totalTokens by the token total of each call that returned; so
\* after any interleaving the counters hold the sums, no increment lost or
\* applied twice.
NoLostUpdates ==
    [][ /\ usageStats'.requests =
               usageStats.requests
               + Cardinality({s \in DOMAIN slots : RequestArrives(s)})
        /\ usageStats'.errors =
               usageStats.errors
               + Cardinality({s \in DOMAIN slots : FailureHandled(s)})
        /\ \A s \in DOMAIN slots :
               CallReturns(s) =>
                   usageStats'.totalTokens =
                       usageStats.totalTokens + TokensOf(slots'[s].ret.usage)
        /\ (\A s \in DOMAIN slots : ~CallReturns(s)) =>
               usageStats'.totalTokens = usageStats.totalTokens
      ]_vars

\* two overlapping requests have both returned 42 tokens, one of them after
\* a failed attempt, and the total is 84
NoLostUpdatesWitness ==
    /\ usageStats.requests = 2
    /\ usageStats.totalTokens = 84
    /\ \E s, t \in DOMAIN slots :
           /\ s # t
           /\ slots[s].pc = "returned"
           /\ slots[s].ret.usage = JsObject([totalTokens |-> 42])
           /\ Len(slots[s].errors) = 1
           /\ slots[t].pc = "returned"
           /\ slots[t].ret.usage = JsObject([totalTokens |-> 42])

\* the environment check of the status check in progress fails
EnvCheckFails ==
    /\ probe.providerName \in Range(ALL_PROVIDERS) \ {"ollama"}
    /\ ~RequiredSatisfied(probe.providerName, env)

\* C22: probing is a query.  A status check, whatever the provider name,
\* never ends by raising: it is waiting for the fetch, the client or the
\* test generation, or it has returned a status; and when the environment
\* check failed, or createAIProvider or the test generation was rejected,
\* the status returned has available false and an error that is not null.
ProbingIsQuery ==
    /\ probe.pc \in {"idle", "fetching", "creating", "generating", "done"}
    /\ (probe.pc # "idle" /\ (EnvCheckFails \/ probe.kind # "none")) =>
           /\ probe.pc = "done"
           /\ ~probe.result.available
           /\ probe.result.error # JsNull

\* createAIProvider rejected for a provider name it does not know, with a
\* message no pattern matches, and the status check returned a status
ProbingIsQueryWitness ==
    /\ probe.pc = "done"
    /\ probe.providerName = "cohere"
    /\ probe.calls.generate = 0
    /\ probe.caught = <<"boom">>
    /\ probe.result.error = JsText(<<"boom">>)
    /\ ~probe.result.available

\* the call of slot s goes on without moving its index back
NoLoopBack(s) ==
    (slots'[s].callNo = slots[s].callNo /\ slots[s].callNo >= 1) =>
        slots'[s].i >= slots[s].i

\* the call of slot s is over as it should be: it returned the result of the
\* candidate it attempted last, every candidate before having failed, or it
\* threw after every candidate failed
EndedProperly(s) ==
    \/ /\ slots[s].pc = "returned"
       /\ slots[s].ret.kind = "result"
       /\ slots[s].ret.provider = slots[s].providersToTry[Len(slots[s].errors) + 1]
    \/ /\ slots[s].pc = "threw"
       /\ slots[s].ret.kind = "error"
       /\ Len(slots[s].errors) = Len(slots[s].providersToTry)

\* C23: termination.  Provided every createAIProvider and generate call
\* settles, a call of generateWithProvider that is awaiting a provider
\* eventually ends, returning the result of the first candidate that
\* succeeded or throwing after its last candidate failed, and its loop index
\* never moves back to an earlier candidate.
Termination ==
    /\ (Creating(1) \/ Generating(1)) ~> EndedProperly(1)
    /\ [][NoLoopBack(1)]_vars

\* a call for openai threw after its three candidates failed one after the
\* other
TerminationWitness ==
    /\ slots[1].pc = "threw"
    /\ slots[1].started = <<"openai", "vertex", "ollama">>
    /\ Len(slots[1].errors) = 3

\* the step in which slot s takes a GET /api/analytics request and answers
AnalyticsServed(s) == RequestArrives(s) /\ slots'[s].ep = "analytics"

\* C24 as stated: obtaining the usage snapshot with GET /api/analytics
\* leaves every counter of usageStats as it was before the read.
SnapshotLeavesCounters ==
    [][ \A s \in DOMAIN slots : AnalyticsServed(s) => usageStats' = usageStats
      ]_vars

\* C24: the handler of GET /api/analytics writes no counter, and the request
\* is counted by logRequest as every request is: serving it raises requests
\* by 1 and leaves errors, totalTokens and providers as they were.
SnapshotCountsItsRequestOnly ==
    [][ \A s \in DOMAIN slots :
            AnalyticsServed(s) =>
                usageStats' = [usageStats EXCEPT !.requests = @ + 1]
      ]_vars

\* the analytics were served as the second request, after a request that
\* failed and was counted as an error
SnapshotCountsItsRequestOnlyWitness ==
    /\ usageStats.requests = 2
    /\ usageStats.errors = 1
    /\ \E s \in DOMAIN slots :
           /\ slots[s].ep = "analytics"
           /\ slots[s].pc = "responded"
           /\ slots[s].status = 200

\* C25: in every reachable state usageStats.errors <= usageStats.requests
\* (every request that counts an error was counted as a request first, and
\* counts one error at most).
ErrorsWithinRequests == usageStats.errors <= usageStats.requests

\* generateWithProvider called for the provider P would put fallback
\* candidates after P
AppendsFallback(P) == Len(ProvidersToTry(P, env, enableFallback)) > 1

\* C26: the fallbackEnabled flag of the /api/status report agrees with the
\* sequencer.  Whatever ENABLE_FALLBACK holds, the report says
\* fallbackEnabled = true exactly when generateWithProvider with an explicit
\* provider would append fallback candidates after it.
FallbackFlagAgrees ==
    \A s \in DOMAIN slots :
        slots[s].ep = "status" =>
            (slots[s].report.fallbackEnabled <=> AppendsFallback("openai"))

\* the first provider in priority order whose status has available true
FirstAvailable(providers) ==
    LET availableProviders ==
            SelectSeqBy(ALL_PROVIDERS,
                        {p \in Range(ALL_PROVIDERS) : providers[p].available})
    IN  IF Len(availableProviders) > 0
        THEN JsString(availableProviders[1])
        ELSE JsNull

\* C27: bestProvider of the /api/status report is the first provider in
\* priority order whose status has available = true, and null exactly when
\* no provider is available; a provider whose probe failed, by a rate limit
\* or otherwise, is never reported as bestProvider.
BestProviderIsAvailable ==
    \A s \in DOMAIN slots :
        (slots[s].ep = "status" /\ slots[s].pc = "responded") =>
            slots[s].report.bestProvider =
                FirstAvailable(slots[s].report.providers)

\* C28: benchmark attribution.  The entry /api/benchmark writes for a
\* provider X has success = true only when the result came from an attempt
\* on X itself; when the attempt on X failed the entry has success = false,
\* whatever another provider reached through fallback produced.
BenchmarkAttribution ==
    \A s \in DOMAIN slots :
        Settled(s, "benchmark") =>
            LET sl == slots[s]
                entry == BenchmarkEntry(sl.ret)
            IN  entry.success =>
                    /\ sl.ret.provider = sl.providerName
                    /\ sl.errors = <<>>

\* generateWithProvider takes p as a candidate of a call for "auto", and as
\* a fallback candidate of a call for another provider (fallback enabled)
IsCandidate(p) ==
    /\ p \in Range(ProvidersToTry("auto", env, JsUndefined))
    /\ \A q \in Range(ALL_PROVIDERS) \ {p} :
           p \in Range(ProvidersToTry(q, env, JsUndefined))

\* C29: sequencer and prober agree on 'configured'.  For each of the nine
\* providers, ollama with its service down included, the status
\* testProviderAvailability returns has configured = true exactly when
\* generateWithProvider takes the provider as an auto-mode or fallback
\* candidate in the same environment.
ConfiguredAgrees ==
    (probe.pc = "done" /\ probe.providerName \in Range(ALL_PROVIDERS)) =>
        (probe.result.configured <=> IsCandidate(probe.providerName))

\* C30: in every status testProviderAvailability returns, error is null if
\* and only if available is true: Ollama down, missing environment
\* variables and a rejected instantiation or generation each set an error,
\* and the paths that succeed leave it null.
ErrorNullIffAvailable ==
    probe.pc = "done" =>
        (probe.result.error = JsNull <=> probe.result.available)

\* the test generation of openai returned and the status has no error
ErrorNullIffAvailableWitness ==
    /\ probe.pc = "done"
    /\ probe.providerName = "openai"
    /\ probe.calls.generate = 1
    /\ probe.kind = "none"
    /\ probe.result.available
    /\ probe.result.error = JsNull

====
